---- MODULE Spec2Model ----
(***************************************************************************)
(* Rate limiting and abuse protection of the hospital management API:     *)
(* app/services/rate_limiter.py on top of app/services/cache_service.py.  *)
(*                                                                         *)
(* Conventions of the model                                                *)
(*  - A Python string is the sequence of its ':'-free segments, so that    *)
(*    "user:alice" is <<"user", "alice">> and f"{a}:{b}" is a \o b; this   *)
(*    makes str.split(':') computable.                                     *)
(*  - time.time() is the integer variable now (seconds).                   *)
(*  - A float multiplier m is kept as the integer 2*m; every multiplier    *)
(*    of the source is a multiple of 0.5.                                  *)
(*  - Redis is the function store from live keys to [val, exp]; exp is the *)
(*    absolute expiry second, NoTTL for a key without expiry.              *)
(***************************************************************************)
EXTENDS Integers, Sequences, FiniteSets, TLC

VARIABLES
    now,        \* time.time()
    avail,      \* cache_service.redis_client is not None
    store,      \* the Redis keyspace (expired keys removed)
    endpoint,   \* the decorated route: [limit_type, custom_limit]
    client,     \* the request context the behaviour's requests carry
    resp,       \* outcome of the last handled call
    calls,      \* history: check_rate_limit calls per identity in the policy window
    workers,    \* in-flight check_rate_limit calls (concurrent runtime)
    ticks,      \* number of clock advances so far
    failed,     \* number of failed logins so far
    resets      \* number of administrative resets so far

vars == <<now, avail, store, endpoint, client, resp, calls, workers, ticks, failed, resets>>

-----------------------------------------------------------------------------
(* Bounds of the model *)

\* clock advances per behaviour
MaxTicks == 3
\* a counter is not driven beyond this value
MaxCount == 17
\* requests a client still sends after its counter passed the limit
MaxOver == 2
\* failed logins per behaviour
MaxFailed == 11
\* failed logins of the client whose address is reset
MaxRun == 12
\* calls of one client to a route under brute_force_protection, per counter
MaxProtected == 6
\* calls of each kind per window while the store misbehaves
MaxFaulty == 4
\* clock advances while requests are in flight
MaxConcTicks == 2
\* long pauses per behaviour
MaxLongTicks == 1
\* concurrent request handlers
NumWorkers == 2
\* administrative resets per behaviour
MaxResets == 1
\* requests of one identity per window while several clients share the store
MaxShared == 2

TimeSteps == {10, 51, 240}
LongSteps == {600, 900}

-----------------------------------------------------------------------------
(* Program constants *)

default_limits ==
    [auth      |-> [requests |-> 5,   window |-> 300],
     api       |-> [requests |-> 100, window |-> 60],
     upload    |-> [requests |-> 10,  window |-> 300],
     emergency |-> [requests |-> 3,   window |-> 60],
     admin     |-> [requests |-> 200, window |-> 60]]

\* user_role_multipliers, each value doubled
user_role_multipliers ==
    [admin |-> 6, hospital_admin |-> 4, doctor |-> 4, user |-> 2, guest |-> 1]

\* CacheService.default_ttl
default_ttl == 3600

NoTTL == -1
None == [none |-> TRUE]
EmptyInfo == [empty |-> TRUE]

-----------------------------------------------------------------------------
(* Strings *)

\* s.split(':')[-1]
LastSegment(s) == <<s[Len(s)]>>

\* ':' in s
HasColon(s) == Len(s) > 1

\* str(n) for a bucket number
IntStr(n) == <<ToString(n)>>

-----------------------------------------------------------------------------
(* The store: Redis commands on the keyspace st at second t *)

\* mutant: a key outlives its expiry by one second
Purge_late(st, t) ==
    LET live == {k \in DOMAIN st : st[k].exp = NoTTL \/ t <= st[k].exp}
    IN  [k \in live |-> st[k]]

\* keys whose expiry has passed are gone
Purge(st, t) ==
    LET live == {k \in DOMAIN st : st[k].exp = NoTTL \/ t < st[k].exp}
    IN  [k \in live |-> st[k]]

\* EXISTS key
redis_exists(st, key) == key \in DOMAIN st

\* INCRBY key amount: a missing key counts from 0 and is created without expiry
redis_incrby(st, key, amount) ==
    IF key \in DOMAIN st
    THEN [st EXCEPT ![key].val = @ + amount]
    ELSE [k \in DOMAIN st \cup {key} |->
            IF k = key THEN [val |-> amount, exp |-> NoTTL] ELSE st[k]]

\* EXPIRE key ttl
redis_expire(st, key, ttl, t) ==
    IF key \in DOMAIN st
    THEN [st EXCEPT ![key].exp = t + ttl]
    ELSE st

\* mutant: SETEX leaves an existing key as it is
redis_setex_nx(st, key, ttl, value, t) ==
    IF key \in DOMAIN st THEN st
    ELSE [k \in DOMAIN st \cup {key} |->
            IF k = key THEN [val |-> value, exp |-> t + ttl] ELSE st[k]]

\* SETEX key ttl value
redis_setex(st, key, ttl, value, t) ==
    [k \in DOMAIN st \cup {key} |->
        IF k = key THEN [val |-> value, exp |-> t + ttl] ELSE st[k]]

\* DEL key
redis_delete(st, key) == [k \in DOMAIN st \ {key} |-> st[k]]

-----------------------------------------------------------------------------
(* CacheService *)

Some(v) == [none |-> FALSE, v |-> v]

\* mutant: a counter seen missing is created with SETEX instead of INCRBY
pipe_execute_setex(st, key, amount, ttl, existed, t) ==
    IF ttl # 0 /\ ~existed
    THEN redis_setex(st, key, ttl, amount, t)
    ELSE redis_incrby(st, key, amount)

\* mutant: the increment also drops the counters of the key's other buckets
pipe_execute_sweep(st, key, amount, ttl, existed, t) ==
    LET st1  == redis_incrby(st, key, amount)
        st2  == IF ttl # 0 /\ ~existed THEN redis_expire(st1, key, ttl, t) ELSE st1
        same == {k \in DOMAIN st2 :
                    k = key \/ Len(k) # Len(key)
                            \/ SubSeq(k, 1, Len(k) - 1) # SubSeq(key, 1, Len(key) - 1)}
    IN  [k \in same |-> st2[k]]

\* pipe.execute() of CacheService.increment: INCRBY, then EXPIRE when the
\* caller's earlier EXISTS saw no key; both run as one MULTI/EXEC block
pipe_execute(st, key, amount, ttl, existed, t) ==
    LET st1 == redis_incrby(st, key, amount)
    IN  IF ttl # 0 /\ ~existed THEN redis_expire(st1, key, ttl, t) ELSE st1

\* CacheService.increment run without interruption.  fault names the store
\* call that raises: "none", "exists", "execute" (the pipeline never reached
\* the server) or "reply" (the pipeline ran and its reply was lost).
\* Result: [st, ret], ret the new count or None.
cache_increment(st, up, key, amount, ttl, t, fault) ==
    IF ~up THEN [st |-> st, ret |-> None]
    ELSE IF fault \in {"exists", "execute"} THEN [st |-> st, ret |-> None]
    ELSE LET st1 == pipe_execute(st, key, amount, ttl, redis_exists(st, key), t)
         IN  IF fault = "reply" THEN [st |-> st1, ret |-> None]
             ELSE [st |-> st1, ret |-> Some(st1[key].val)]

\* CacheService.exists
cache_exists(st, up, key, fault) ==
    IF ~up \/ fault # "none" THEN FALSE ELSE redis_exists(st, key)

\* CacheService.set: ttl = ttl or default_ttl, then SETEX
cache_set(st, up, key, value, ttl, t, fault) ==
    IF ~up \/ fault # "none" THEN st
    ELSE redis_setex(st, key, IF ttl = 0 THEN default_ttl ELSE ttl, value, t)

\* a key of the form prefix:<anything>
HasPrefix(key, prefix) ==
    /\ Len(key) > Len(prefix)
    /\ SubSeq(key, 1, Len(prefix)) = prefix

\* CacheService.flush_pattern for the pattern prefix:*
cache_flush_pattern(st, up, prefix) ==
    IF ~up THEN st
    ELSE [k \in {j \in DOMAIN st : ~HasPrefix(j, prefix)} |-> st[k]]

\* CacheService.get: the stored value or None
cache_get(st, up, key) ==
    IF up /\ key \in DOMAIN st THEN Some(st[key].val) ELSE None

\* CacheService.delete
cache_delete(st, up, key) == IF ~up THEN st ELSE redis_delete(st, key)

-----------------------------------------------------------------------------
(* Request context *)

\* what flask_jwt_extended yields for a request without a verified token
NoJwt == [present |-> FALSE]

Jwt(identity, claims) == [present |-> TRUE, identity |-> identity, claims |-> claims]

\* claims.get(name, default)
claims_get(claims, name, default) ==
    IF name \in DOMAIN claims THEN claims[name] ELSE default

\* mutant: X-Real-IP is preferred to X-Forwarded-For
_get_client_ip_real_first(req) ==
    IF req.xri # << >> THEN req.xri
    ELSE IF req.xff # << >> THEN req.xff[1]
    ELSE IF req.remote # << >> THEN req.remote
    ELSE <<"unknown">>

\* RateLimiter._get_client_ip: first X-Forwarded-For entry, else X-Real-IP,
\* else the peer address, else 'unknown'
_get_client_ip(req) ==
    IF req.xff # << >> THEN req.xff[1]
    ELSE IF req.xri # << >> THEN req.xri
    ELSE IF req.remote # << >> THEN req.remote
    ELSE <<"unknown">>

\* RateLimiter._get_client_identifier
_get_client_identifier(req) ==
    IF req.jwt.present /\ req.jwt.identity # ""
    THEN <<"user", claims_get(req.jwt.claims, "type", "user"), req.jwt.identity>>
    ELSE <<"ip">> \o _get_client_ip(req)

\* mutant: an unknown role falls back to 0.5
role_multiplier_half(role) ==
    IF role \in DOMAIN user_role_multipliers THEN user_role_multipliers[role] ELSE 1

\* self.user_role_multipliers.get(role, 1.0), doubled
role_multiplier(role) ==
    IF role \in DOMAIN user_role_multipliers THEN user_role_multipliers[role] ELSE 2

\* RateLimiter._get_user_role_multiplier, doubled: get_jwt() raises without a
\* verified token and the except branch answers 0.5
_get_user_role_multiplier(req) ==
    IF req.jwt.present
    THEN role_multiplier(claims_get(req.jwt.claims, "role", "user"))
    ELSE 1

-----------------------------------------------------------------------------
(* RateLimiter *)

\* int(t / w) for t >= 0, w > 0
Bucket(t, w) == t \div w

\* RateLimiter._get_rate_limit_key; the caller checks limit_type is registered
_get_rate_limit_key(identifier, limit_type, t) ==
    <<"rate_limit", limit_type>> \o identifier
        \o IntStr(Bucket(t, default_limits[limit_type].window))

\* custom_limit if given, else default_limits.get(limit_type, default_limits['api'])
limit_config(limit_type, custom_limit) ==
    IF custom_limit # None THEN custom_limit
    ELSE IF limit_type \in DOMAIN default_limits THEN default_limits[limit_type]
    ELSE default_limits["api"]

\* mutant: round() in place of int()
adjusted_limit_round(requests, multiplier2) == (requests * multiplier2 + 1) \div 2

\* int(limit_config['requests'] * multiplier), multiplier doubled
adjusted_limit(requests, multiplier2) == (requests * multiplier2) \div 2

\* mutant: strict comparison
is_allowed_strict(current_count, limit) == current_count < limit

\* is_allowed = current_count <= adjusted_limit
is_allowed(current_count, limit) == current_count <= limit

Max(a, b) == IF a >= b THEN a ELSE b

\* mutant: a denied caller is told to wait a whole window
limit_info_retry_window(identifier, limit, window, current_count, t) ==
    [limit       |-> limit,
     remaining   |-> Max(0, limit - current_count),
     reset_time  |-> Bucket(t, window) * window + window,
     retry_after |-> IF ~is_allowed(current_count, limit) THEN window ELSE 0,
     window      |-> window,
     identifier  |-> identifier[1]]

\* the limit_info dictionary of check_rate_limit
limit_info(identifier, limit, window, current_count, t) ==
    LET reset_time == Bucket(t, window) * window + window
    IN  [limit       |-> limit,
         remaining   |-> Max(0, limit - current_count),
         reset_time  |-> reset_time,
         retry_after |-> IF ~is_allowed(current_count, limit) THEN reset_time - t ELSE 0,
         window      |-> window,
         identifier  |-> identifier[1]]

\* mutant: no except branch, the TypeError of None <= int propagates
check_finish_raise(identifier, cfg, limit, inc, t) ==
    IF inc.ret = None
    THEN [allowed |-> FALSE, info |-> EmptyInfo, st |-> inc.st, count |-> None,
          raised |-> TRUE]
    ELSE [allowed |-> is_allowed(inc.ret.v, limit),
          info    |-> limit_info(identifier, limit, cfg.window, inc.ret.v, t),
          st      |-> inc.st,
          count   |-> inc.ret,
          raised  |-> FALSE]

\* mutant: a denied request gives its increment back
check_finish_uncounted(identifier, cfg, limit, inc, t) ==
    IF inc.ret = None
    THEN [allowed |-> TRUE, info |-> EmptyInfo, st |-> inc.st, count |-> None,
          raised |-> FALSE]
    ELSE [allowed |-> is_allowed(inc.ret.v, limit),
          info    |-> limit_info(identifier, limit, cfg.window, inc.ret.v, t),
          st      |-> IF is_allowed(inc.ret.v, limit) THEN inc.st
                      ELSE [k \in DOMAIN inc.st |->
                              IF inc.st[k].val = inc.ret.v /\ k[1] = "rate_limit"
                              THEN [inc.st[k] EXCEPT !.val = @ - 1] ELSE inc.st[k]],
          count   |-> inc.ret,
          raised  |-> FALSE]

\* lines 101-117 of check_rate_limit, after the increment answered inc.ret;
\* comparing None with an int raises and the except branch admits the request
check_finish(identifier, cfg, limit, inc, t) ==
    IF inc.ret = None
    THEN [allowed |-> TRUE, info |-> EmptyInfo, st |-> inc.st, count |-> None,
          raised |-> FALSE]
    ELSE [allowed |-> is_allowed(inc.ret.v, limit),
          info    |-> limit_info(identifier, limit, cfg.window, inc.ret.v, t),
          st      |-> inc.st,
          count   |-> inc.ret,
          raised  |-> FALSE]

\* RateLimiter.check_rate_limit run without interruption:
\* [allowed, info, st, count, raised]; raised tells an exception left the call
check_rate_limit(st, up, req, limit_type, custom_limit, t, fault) ==
    LET identifier == _get_client_identifier(req)
        cfg        == limit_config(limit_type, custom_limit)
        limit      == adjusted_limit(cfg.requests, _get_user_role_multiplier(req))
    IN  IF ~up
        THEN [allowed |-> TRUE, info |-> EmptyInfo, st |-> st, count |-> None,
              raised |-> FALSE]
        ELSE IF limit_type \notin DOMAIN default_limits
        THEN \* KeyError in _get_rate_limit_key, caught at line 119
             [allowed |-> TRUE, info |-> EmptyInfo, st |-> st, count |-> None,
              raised |-> FALSE]
        ELSE check_finish(identifier, cfg, limit,
                cache_increment(st, up, _get_rate_limit_key(identifier, limit_type, t),
                                1, cfg.window, t, fault), t)

\* key of the block entry of an address
blocked_key(ip) == <<"blocked_ip">> \o ip

\* RateLimiter.is_ip_blocked
is_ip_blocked(st, up, ip, fault) ==
    IF ~up THEN FALSE ELSE cache_exists(st, up, blocked_key(ip), fault)

\* RateLimiter.block_ip: [st, ret]
block_ip(st, up, ip_address, duration, reason, t, fault) ==
    IF ~up THEN [st |-> st, ret |-> FALSE]
    ELSE [st  |-> cache_set(st, up, blocked_key(ip_address),
                            [blocked_at |-> t, reason |-> reason, duration |-> duration],
                            duration, t, fault),
          ret |-> TRUE]

\* mutant: an axis trips when its count reaches the maximum
check_brute_force_protection_ge(st, up, identifier, max_attempts, window, t, f_inc, f_set) ==
    IF ~up THEN [st |-> st, blocked |-> FALSE, attempts |-> 0]
    ELSE LET inc      == cache_increment(st, up, <<"brute_force">> \o identifier,
                                         1, window, t, f_inc)
             attempts == IF inc.ret = None THEN 0 ELSE inc.ret.v
             target   == IF HasColon(identifier) THEN LastSegment(identifier)
                         ELSE identifier
         IN  IF attempts >= max_attempts
             THEN [st       |-> block_ip(inc.st, up, target, window,
                                         "Brute force protection", t, f_set).st,
                   blocked  |-> TRUE,
                   attempts |-> attempts]
             ELSE [st |-> inc.st, blocked |-> FALSE, attempts |-> attempts]

\* RateLimiter.check_brute_force_protection: [st, blocked, attempts].
\* f_inc is the fault of the increment, f_set that of the block's SETEX.
check_brute_force_protection(st, up, identifier, max_attempts, window, t, f_inc, f_set) ==
    IF ~up THEN [st |-> st, blocked |-> FALSE, attempts |-> 0]
    ELSE LET inc      == cache_increment(st, up, <<"brute_force">> \o identifier,
                                         1, window, t, f_inc)
             attempts == IF inc.ret = None THEN 0 ELSE inc.ret.v
             target   == IF HasColon(identifier) THEN LastSegment(identifier)
                         ELSE identifier
         IN  IF attempts > max_attempts
             THEN [st       |-> block_ip(inc.st, up, target, window,
                                         "Brute force protection", t, f_set).st,
                   blocked  |-> TRUE,
                   attempts |-> attempts]
             ELSE [st |-> inc.st, blocked |-> FALSE, attempts |-> attempts]

\* the counters of every limit type are flushed, one type after the other
RECURSIVE flush_limit_types(_, _, _, _)
flush_limit_types(st, up, identifier, types) ==
    IF types = {} THEN st
    ELSE LET lt == CHOOSE x \in types : TRUE
         IN  flush_limit_types(
                 cache_flush_pattern(st, up, <<"rate_limit", lt>> \o identifier),
                 up, identifier, types \ {lt})

\* RateLimiter.reset_rate_limits for a given identifier: [st, ret]
reset_rate_limits(st, up, identifier) ==
    IF ~up THEN [st |-> st, ret |-> FALSE]
    ELSE LET st1 == flush_limit_types(st, up, identifier, DOMAIN default_limits)
         IN  [st  |-> IF HasColon(identifier)
                      THEN cache_delete(st1, up, blocked_key(LastSegment(identifier)))
                      ELSE st1,
              ret |-> TRUE]

NoFaults == [ip |-> "none", user |-> "none", combo |-> "none", set |-> "none"]

\* mutant: the axes after one that tripped are not counted
track_failed_login_short(st, up, username, ip, t, f) ==
    IF ~up THEN [st |-> st, ret |-> FALSE, by_ip |-> FALSE, by_user |-> FALSE,
                 by_combo |-> FALSE]
    ELSE LET a == check_brute_force_protection(st, up, ip, 10, 900, t, f.ip, f.set)
             b == IF a.blocked THEN [st |-> a.st, blocked |-> FALSE, attempts |-> 0]
                  ELSE check_brute_force_protection(a.st, up, <<"user">> \o username,
                                                    5, 1800, t, f.user, f.set)
             c == IF a.blocked \/ b.blocked
                  THEN [st |-> b.st, blocked |-> FALSE, attempts |-> 0]
                  ELSE check_brute_force_protection(b.st, up, <<"combo">> \o ip \o username,
                                                    3, 600, t, f.combo, f.set)
         IN  [st       |-> c.st,
              ret      |-> a.blocked \/ b.blocked \/ c.blocked,
              by_ip    |-> a.blocked,
              by_user  |-> b.blocked,
              by_combo |-> c.blocked]

\* RateLimiter.track_failed_login with ip resolved by the caller: [st, ret]
track_failed_login(st, up, username, ip, t, f) ==
    IF ~up THEN [st |-> st, ret |-> FALSE, by_ip |-> FALSE, by_user |-> FALSE,
                 by_combo |-> FALSE]
    ELSE LET a == check_brute_force_protection(st, up, ip, 10, 900, t, f.ip, f.set)
             b == check_brute_force_protection(a.st, up, <<"user">> \o username,
                                               5, 1800, t, f.user, f.set)
             c == check_brute_force_protection(b.st, up, <<"combo">> \o ip \o username,
                                               3, 600, t, f.combo, f.set)
         IN  [st       |-> c.st,
              ret      |-> a.blocked \/ b.blocked \/ c.blocked,
              by_ip    |-> a.blocked,
              by_user  |-> b.blocked,
              by_combo |-> c.blocked]

\* RateLimitConfig.set_custom_limit: [st, ret]
set_custom_limit(st, up, endpoint_name, requests, window, duration, t) ==
    IF ~up THEN [st |-> st, ret |-> FALSE]
    ELSE [st  |-> cache_set(st, up, <<"custom_limit", endpoint_name>>,
                            [requests |-> requests, window |-> window],
                            duration, t, "none"),
          ret |-> TRUE]

\* RateLimitConfig.get_custom_limit
get_custom_limit(st, up, endpoint_name) ==
    IF ~up THEN None ELSE cache_get(st, up, <<"custom_limit", endpoint_name>>)

NoHeaders == [h \in {} |-> 0]

\* mutant: the remaining header repeats the limit
rate_limit_headers_stale(info, with_retry) ==
    LET names == {"X-RateLimit-Limit", "X-RateLimit-Remaining", "X-RateLimit-Reset"}
                   \cup (IF with_retry THEN {"Retry-After"} ELSE {})
    IN  [h \in names |->
            CASE h = "X-RateLimit-Limit"     -> IF info = EmptyInfo THEN 0 ELSE info.limit
              [] h = "X-RateLimit-Remaining" -> IF info = EmptyInfo THEN 0 ELSE info.limit
              [] h = "X-RateLimit-Reset"     -> IF info = EmptyInfo THEN 0 ELSE info.reset_time
              [] h = "Retry-After"           -> IF info = EmptyInfo THEN 60 ELSE info.retry_after]

\* the X-RateLimit-* headers add_rate_limit_headers / the 429 branch attach
rate_limit_headers(info, with_retry) ==
    LET names == {"X-RateLimit-Limit", "X-RateLimit-Remaining", "X-RateLimit-Reset"}
                   \cup (IF with_retry THEN {"Retry-After"} ELSE {})
    IN  [h \in names |->
            CASE h = "X-RateLimit-Limit"     -> IF info = EmptyInfo THEN 0 ELSE info.limit
              [] h = "X-RateLimit-Remaining" -> IF info = EmptyInfo THEN 0 ELSE info.remaining
              [] h = "X-RateLimit-Reset"     -> IF info = EmptyInfo THEN 0 ELSE info.reset_time
              [] h = "Retry-After"           -> IF info = EmptyInfo THEN 60 ELSE info.retry_after]

\* mutant: the quota is checked before the block
rate_limit_quota_first(st, up, req, limit_type, custom_limit, t, f_block, f_inc) ==
    LET r == check_rate_limit(st, up, req, limit_type, custom_limit, t, f_inc)
    IN  IF ~r.allowed
        THEN [outcome |-> "RateLimited", status |-> 429, handler_ran |-> FALSE,
              headers |-> NoHeaders, checked |-> TRUE,
              allowed |-> FALSE, info |-> r.info, count |-> r.count, st |-> r.st]
        ELSE IF is_ip_blocked(st, up, _get_client_ip(req), f_block)
        THEN [outcome |-> "Blocked", status |-> 429, handler_ran |-> FALSE,
              headers |-> NoHeaders, checked |-> TRUE,
              allowed |-> FALSE, info |-> EmptyInfo, count |-> None, st |-> r.st]
        ELSE [outcome |-> "Allowed", status |-> 200, handler_ran |-> TRUE,
              headers |-> NoHeaders, checked |-> TRUE,
              allowed |-> TRUE, info |-> r.info, count |-> r.count, st |-> r.st]

\* mutant: a request over its quota still reaches the handler
rate_limit_soft(st, up, req, limit_type, custom_limit, t, f_block, f_inc) ==
    IF is_ip_blocked(st, up, _get_client_ip(req), f_block)
    THEN [outcome |-> "Blocked", status |-> 429, handler_ran |-> FALSE,
          headers |-> NoHeaders, checked |-> FALSE,
          allowed |-> FALSE, info |-> EmptyInfo, count |-> None, st |-> st]
    ELSE LET r == check_rate_limit(st, up, req, limit_type, custom_limit, t, f_inc)
         IN  [outcome |-> IF r.allowed THEN "Allowed" ELSE "RateLimited",
              status |-> 200, handler_ran |-> TRUE,
              headers |-> IF r.info = EmptyInfo THEN NoHeaders
                          ELSE rate_limit_headers(r.info, ~r.allowed),
              checked |-> TRUE,
              allowed |-> r.allowed, info |-> r.info, count |-> r.count, st |-> r.st]

\* the wrapper of the rate_limit decorator around one request, together with
\* the after_request hook: [outcome, status, handler_ran, headers, checked,
\* allowed, info, count, st].  An exception leaving check_rate_limit would leave
\* the wrapper too and Flask would answer 500.
rate_limit(st, up, req, limit_type, custom_limit, t, f_block, f_inc) ==
    IF is_ip_blocked(st, up, _get_client_ip(req), f_block)
    THEN [outcome |-> "Blocked", status |-> 429, handler_ran |-> FALSE,
          headers |-> NoHeaders, checked |-> FALSE,
          allowed |-> FALSE, info |-> EmptyInfo, count |-> None, st |-> st]
    ELSE LET r == check_rate_limit(st, up, req, limit_type, custom_limit, t, f_inc)
         IN  IF r.raised
             THEN [outcome |-> "Error", status |-> 500, handler_ran |-> FALSE,
                   headers |-> NoHeaders, checked |-> TRUE,
                   allowed |-> FALSE, info |-> r.info, count |-> r.count, st |-> r.st]
             ELSE IF ~r.allowed
             THEN [outcome |-> "RateLimited", status |-> 429, handler_ran |-> FALSE,
                   headers |-> rate_limit_headers(r.info, TRUE), checked |-> TRUE,
                   allowed |-> FALSE, info |-> r.info, count |-> r.count, st |-> r.st]
             ELSE [outcome |-> "Allowed", status |-> 200, handler_ran |-> TRUE,
                   headers |-> IF r.info = EmptyInfo THEN NoHeaders
                               ELSE rate_limit_headers(r.info, FALSE),
                   checked |-> TRUE,
                   allowed |-> TRUE, info |-> r.info, count |-> r.count, st |-> r.st]

-----------------------------------------------------------------------------
(* Inputs *)

Ctx(jwt, xff, xri, remote) == [jwt |-> jwt, xff |-> xff, xri |-> xri, remote |-> remote]

Guest   == Ctx(NoJwt, << >>, << >>, <<"1.1.1.1">>)
Proxied == Ctx(NoJwt, << <<"9.9.9.9">>, <<"10.0.0.1">> >>, << >>, <<"10.0.0.1">>)
Admin   == Ctx(Jwt("7", [type |-> "admin", role |-> "admin"]), << >>, << >>, <<"1.1.1.1">>)
User    == Ctx(Jwt("5", [type |-> "user", role |-> "user"]), << >>, << >>, <<"1.1.1.1">>)
Donor   == Ctx(Jwt("6", [type |-> "user", role |-> "donor"]), << >>, << >>, <<"1.1.1.1">>)
NoRole  == Ctx(Jwt("8", [type |-> "user"]), << >>, <<"2.2.2.2">>, <<"10.0.0.1">>)
Doctor  == Ctx(Jwt("3", [type |-> "user", role |-> "doctor"]), << >>, << >>, <<"1.1.1.1">>)
HospitalAdmin ==
    Ctx(Jwt("4", [type |-> "hospital", role |-> "hospital_admin"]), << >>, << >>, <<"1.1.1.1">>)
GuestRole == Ctx(Jwt("2", [type |-> "user", role |-> "guest"]), << >>, << >>, <<"1.1.1.1">>)

\* a request without a token on a route that verified the token as optional:
\* get_jwt() answers {} and get_jwt_identity() answers None
NoClaims == [c \in {} |-> ""]
Anonymous == Ctx(Jwt("", NoClaims), << <<"9.9.9.9">> >>, << >>, <<"10.0.0.1">>)

\* a client without token whose peer address is the IPv6 address 2001:db8::1
Guest6 == Ctx(NoJwt, << >>, << >>, <<"2001", "db8", "", "1">>)

Requests ==
    {Guest, Proxied, Admin, User, Donor, NoRole, Doctor, HospitalAdmin, GuestRole, Anonymous}

Policy(n, w) == [requests |-> n, window |-> w]

CustomLimits == {Policy(1, 15), Policy(2, 90), Policy(4, 60)}

Route(limit_type, custom_limit) ==
    [limit_type |-> limit_type, custom_limit |-> custom_limit]

\* decorated routes: every built-in category, an unregistered one, and
\* call-site policies on emergency
Endpoints ==
    {Route(lt, None) : lt \in DOMAIN default_limits \cup {"search"}}
        \cup {Route("emergency", c) : c \in CustomLimits}

\* the route and client of a behaviour: the three main clients on every
\* route, every client on the auth, upload and emergency defaults
Scenarios ==
    {<<e, c>> : e \in Endpoints, c \in {Guest, User, Admin}}
        \cup {<<Route(lt, None), c>> : lt \in {"auth", "upload", "emergency"}, c \in Requests}

BlockDurations == {30, 3600}

\* block_ip calls: a short block with the default reason, a long manual one
BlockCalls ==
    {[duration |-> 30, reason |-> "Rate limit exceeded"],
     [duration |-> 3600, reason |-> "Manual block"]}

EmptyStore == [k \in {} |-> None]

Idle == [pc |-> "idle"]

-----------------------------------------------------------------------------
(* History *)

NoCalls == [bucket |-> -1, n |-> 0, reset |-> -1, denied |-> FALSE]

CallsOf(identifier) == IF identifier \in DOMAIN calls THEN calls[identifier] ELSE NoCalls

\* the history after one more check_rate_limit call by identifier under cfg at t
Counted(identifier, cfg, t, info) ==
    LET prev == CallsOf(identifier)
        b    == Bucket(t, cfg.window)
        rec  == [bucket |-> b,
                 n      |-> IF prev.bucket = b THEN prev.n + 1 ELSE 1,
                 reset  |-> IF info = EmptyInfo THEN prev.reset ELSE info.reset_time,
                 denied |-> \/ prev.bucket = b /\ prev.denied
                            \/ info # EmptyInfo /\ info.retry_after > 0]
    IN  [i \in DOMAIN calls \cup {identifier} |-> IF i = identifier THEN rec ELSE calls[i]]

\* value of a counter key, 0 when absent
CounterValue(st, key) == IF key \in DOMAIN st THEN st[key].val ELSE 0

-----------------------------------------------------------------------------
(* Operations, each handler run without interruption *)

\* one request through a route decorated with rate_limit(limit_type, custom_limit)
Request(f_block, f_inc) ==
    LET lt    == endpoint.limit_type
        ident == _get_client_identifier(client)
        cfg   == limit_config(lt, endpoint.custom_limit)
        r     == rate_limit(store, avail, client, lt, endpoint.custom_limit, now,
                            f_block, f_inc)
    IN  /\ \A w \in DOMAIN workers : workers[w].pc = "idle"
        /\ CallsOf(ident).n < MaxCount
        /\ lt \in DOMAIN default_limits =>
              LET c == CounterValue(store, _get_rate_limit_key(ident, lt, now))
              IN  /\ c < MaxCount
                  /\ c < adjusted_limit(cfg.requests, _get_user_role_multiplier(client))
                            + MaxOver
        /\ store' = r.st
        /\ calls' = IF r.checked THEN Counted(ident, cfg, now, r.info) ELSE calls
        /\ resp' = [op          |-> "request",
                    outcome     |-> r.outcome,
                    status      |-> r.status,
                    handler_ran |-> r.handler_ran,
                    headers     |-> r.headers,
                    checked     |-> r.checked,
                    allowed     |-> r.allowed,
                    info        |-> r.info,
                    count       |-> r.count,
                    t           |-> now,
                    policy      |-> cfg,
                    ordinal     |-> IF r.checked
                                    THEN Counted(ident, cfg, now, r.info)[ident].n ELSE 0,
                    prev_reset  |-> CallsOf(ident).reset,
                    was_denied  |-> /\ CallsOf(ident).denied
                                    /\ CallsOf(ident).bucket = Bucket(now, cfg.window),
                    pre_blocked |-> blocked_key(_get_client_ip(client)) \in DOMAIN store,
                    override    |-> get_custom_limit(store, avail, lt),
                    pre         |-> store,
                    changed     |-> r.st # store,
                    f_block     |-> f_block,
                    f_inc       |-> f_inc]
        /\ UNCHANGED <<now, avail, endpoint, client, workers, ticks, failed, resets>>

\* RateLimiter.block_ip(ip, duration, reason) called for the client's address
BlockIpFor(duration, reason) ==
    LET ip == _get_client_ip(client)
        r  == block_ip(store, avail, ip, duration, reason, now, "none")
    IN  /\ store' = r.st
        /\ resp' = [op          |-> "block_ip",
                    ret         |-> r.ret,
                    ip          |-> ip,
                    t           |-> now,
                    duration    |-> duration,
                    reason      |-> reason,
                    pre_blocked |-> is_ip_blocked(store, avail, ip, "none"),
                    pre         |-> store]
        /\ UNCHANGED <<now, avail, endpoint, client, calls, workers, ticks, failed, resets>>

\* block_ip with its default reason
BlockIp(duration) == BlockIpFor(duration, "Rate limit exceeded")

\* RateLimiter.reset_rate_limits(identifier), the administrative reset
ResetRateLimits(identifier) ==
    LET r == reset_rate_limits(store, avail, identifier)
    IN  /\ resets < MaxResets
        /\ resets' = resets + 1
        /\ store' = r.st
        /\ resp' = [op         |-> "reset",
                    ret        |-> r.ret,
                    identifier |-> identifier,
                    t          |-> now,
                    pre        |-> store]
        /\ UNCHANGED <<now, avail, endpoint, client, calls, workers, ticks, failed>>

\* the clock advances by d seconds and Redis drops what has expired; the
\* response of the last call has been delivered
Advance(d, max) ==
    /\ ticks < max
    /\ now' = now + d
    /\ ticks' = ticks + 1
    /\ store' = Purge(store, now + d)
    /\ resp' = [op |-> "none"]
    /\ UNCHANGED <<avail, endpoint, client, calls, workers, failed, resets>>

Tick(d) == Advance(d, MaxTicks)

\* a long pause
LongTick(d) == Advance(d, MaxLongTicks)

-----------------------------------------------------------------------------
(* Sequential use of one decorated route by one client, store reachable *)

Init ==
    /\ now = 0
    /\ avail = TRUE
    /\ store = EmptyStore
    /\ \E s \in Scenarios : endpoint = s[1] /\ client = s[2]
    /\ resp = [op |-> "none"]
    /\ calls = [i \in {} |-> NoCalls]
    /\ workers = [w \in 1..NumWorkers |-> Idle]
    /\ ticks = 0
    /\ failed = 0
    /\ resets = 0

Next ==
    \/ Request("none", "none")
    \/ \E d \in TimeSteps : Tick(d)

Spec == Init /\ [][Next]_vars

-----------------------------------------------------------------------------
(* Blocks and brute-force detection *)

Usernames == {<<"alice">>, <<"bob">>}

\* RateLimiter.track_failed_login(username) for a failed login of the client
TrackFailedLoginUpTo(username, f, max) ==
    LET ip == _get_client_ip(client)
        r  == track_failed_login(store, avail, username, ip, now, f)
    IN  /\ failed < max
        /\ failed' = failed + 1
        /\ store' = r.st
        /\ resp' = [op       |-> "track_failed_login",
                    ret      |-> r.ret,
                    by_ip    |-> r.by_ip,
                    by_user  |-> r.by_user,
                    by_combo |-> r.by_combo,
                    username |-> username,
                    ip       |-> ip,
                    f        |-> f,
                    pre      |-> store,
                    t        |-> now]
        /\ UNCHANGED <<now, avail, endpoint, client, calls, workers, ticks, resets>>

TrackFailedLogin(username, f) == TrackFailedLoginUpTo(username, f, MaxFailed)

InitWith(scenarios, up) ==
    /\ now = 0
    /\ avail \in up
    /\ store = EmptyStore
    /\ \E s \in scenarios : endpoint = s[1] /\ client = s[2]
    /\ resp = [op |-> "none"]
    /\ calls = [i \in {} |-> NoCalls]
    /\ workers = [w \in 1..NumWorkers |-> Idle]
    /\ ticks = 0
    /\ failed = 0
    /\ resets = 0

\* one client on the emergency route while its address gets blocked
InitBlock ==
    InitWith({<<Route("emergency", None), Guest>>,
              <<Route("emergency", None), User>>,
              <<Route("emergency", Policy(4, 60)), Proxied>>}, {TRUE})

NextBlock ==
    \/ Request("none", "none")
    \/ \E b \in BlockCalls : BlockIpFor(b.duration, b.reason)
    \/ \E i \in {_get_client_identifier(client), <<"ip">> \o _get_client_ip(client)} :
          ResetRateLimits(i)
    \/ \E d \in TimeSteps : Tick(d)

SpecBlock == InitBlock /\ [][NextBlock]_vars

\* failed logins of one client under two usernames
InitBF == InitWith({<<Route("auth", None), c>> : c \in {Guest, Proxied}}, {TRUE})

NextBF ==
    \/ \E u \in Usernames : TrackFailedLogin(u, NoFaults)
    \/ \E d \in LongSteps : LongTick(d)
    \/ BlockIp(default_ttl)

SpecBF == InitBF /\ [][NextBF]_vars

\* failed logins of one client, and an administrator's reset of its address
InitBFReset == InitWith({<<Route("auth", None), c>> : c \in {Guest, Proxied}}, {TRUE})

NextBFReset ==
    \/ TrackFailedLoginUpTo(<<"alice">>, NoFaults, MaxRun)
    \/ ResetRateLimits(<<"ip">> \o _get_client_ip(client))
    \/ \E d \in LongSteps : LongTick(d)

SpecBFReset == InitBFReset /\ [][NextBFReset]_vars

\* brute_force_protection() with its defaults around a handler:
\* [st, status, handler_ran, blocked, attempts]
brute_force_protection(st, up, req, t) ==
    LET r == check_brute_force_protection(st, up, _get_client_identifier(req),
                                          5, 900, t, "none", "none")
    IN  [st          |-> r.st,
         status      |-> IF r.blocked THEN 429 ELSE 200,
         handler_ran |-> ~r.blocked,
         blocked     |-> r.blocked,
         attempts    |-> r.attempts]

\* one request of the client through a route under brute_force_protection()
ProtectedRequest ==
    LET ident == _get_client_identifier(client)
        r     == brute_force_protection(store, avail, client, now)
    IN  /\ CounterValue(store, <<"brute_force">> \o ident) < MaxProtected
        /\ store' = r.st
        /\ resp' = [op          |-> "protected",
                    status      |-> r.status,
                    handler_ran |-> r.handler_ran,
                    blocked     |-> r.blocked,
                    attempts    |-> r.attempts,
                    identifier  |-> ident,
                    ip          |-> _get_client_ip(client),
                    pre         |-> store,
                    t           |-> now]
        /\ UNCHANGED <<now, avail, endpoint, client, calls, workers, ticks, failed, resets>>

\* protected requests and failed logins of one client
InitProtected ==
    InitWith({<<Route("auth", None), c>> : c \in {Guest, Guest6, User}}, {TRUE})

NextProtected ==
    \/ ProtectedRequest
    \/ TrackFailedLoginUpTo(<<"alice">>, NoFaults, MaxFaulty)
    \/ \E d \in LongSteps : LongTick(d)

SpecProtected == InitProtected /\ [][NextProtected]_vars

\* which store call of an increment fails
IncFaults == {"none", "exists", "execute", "reply"}

FaultPlans ==
    {NoFaults,
     [ip |-> "exists", user |-> "execute", combo |-> "reply", set |-> "none"],
     [ip |-> "none", user |-> "none", combo |-> "none", set |-> "fail"]}

\* the store is unconfigured, or single calls to it fail
InitFault == InitWith({<<Route("emergency", None), c>> : c \in {Guest, User}}, BOOLEAN)

NextFault ==
    \/ \E fb \in {"none", "exists"}, fi \in IncFaults :
          /\ CallsOf(_get_client_identifier(client)).n < MaxFaulty
          /\ Request(fb, fi)
    \/ \E f \in FaultPlans :
          /\ failed < MaxFaulty
          /\ TrackFailedLogin(<<"alice">>, f)
    \/ BlockIp(default_ttl)

SpecFault == InitFault /\ [][NextFault]_vars

-----------------------------------------------------------------------------
(* Stored overrides of a category's policy *)

\* overrides an operator stores: [requests, window, duration]
Overrides ==
    {[requests |-> 10, window |-> 30, duration |-> 60],
     [requests |-> 1,  window |-> 60, duration |-> 300],
     [requests |-> -1, window |-> 0,  duration |-> 60]}

\* RateLimitConfig.set_custom_limit for the category of the route
SetCustomLimit(o) ==
    LET r == set_custom_limit(store, avail, endpoint.limit_type,
                              o.requests, o.window, o.duration, now)
    IN  /\ store' = r.st
        /\ resp' = [op |-> "set_custom_limit", ret |-> r.ret, override |-> o, t |-> now]
        /\ UNCHANGED <<now, avail, endpoint, client, calls, workers, ticks, failed, resets>>

InitOverride ==
    InitWith({<<Route(lt, None), c>> : lt \in {"emergency", "auth"}, c \in {Guest, User}},
             {TRUE})

NextOverride ==
    \/ Request("none", "none")
    \/ \E o \in Overrides : SetCustomLimit(o)
    \/ \E d \in TimeSteps : Tick(d)

SpecOverride == InitOverride /\ [][NextOverride]_vars

-----------------------------------------------------------------------------
(* Several clients and routes sharing one store *)

\* the routes and clients whose requests arrive in one behaviour, in the
\* order in which they take their turn
SharedScenarios ==
    << <<Route("auth", None), User>>,
       <<Route("emergency", Policy(2, 90)), User>>,
       <<Route("emergency", Policy(2, 90)), Guest>> >>

\* the following requests come from the next client and route of order
SwitchIn(order, n) ==
    /\ <<endpoint, client>> = order[n - 1]
    /\ endpoint' = order[n][1]
    /\ client' = order[n][2]
    /\ resp' = [op |-> "none"]
    /\ UNCHANGED <<now, avail, store, calls, workers, ticks, failed, resets>>

Switch(n) == SwitchIn(SharedScenarios, n)

InitShared == InitWith({SharedScenarios[1]}, {TRUE})

NextShared ==
    \/ /\ CallsOf(_get_client_identifier(client)).n < MaxShared
       /\ Request("none", "none")
    \/ \E n \in 2..Len(SharedScenarios) : Switch(n)
    \/ /\ failed < MaxFaulty
       /\ TrackFailedLogin(<<"alice">>, NoFaults)
    \/ \E d \in {10, 61} : Advance(d, MaxLongTicks)

SpecShared == InitShared /\ [][NextShared]_vars

-----------------------------------------------------------------------------
(* The administrative reset among requests and blocks *)

\* a client on two routes, then a client with an IPv6 address, then a user
ResetScenarios ==
    << <<Route("auth", None), Guest>>,
       <<Route("emergency", None), Guest>>,
       <<Route("emergency", None), Guest6>>,
       <<Route("emergency", None), User>> >>

InitReset == InitWith({ResetScenarios[1]}, {TRUE})

NextReset ==
    \/ /\ CallsOf(_get_client_identifier(client)).n < MaxShared
       /\ Request("none", "none")
    \/ \E n \in 2..Len(ResetScenarios) : SwitchIn(ResetScenarios, n)
    \/ BlockIp(default_ttl)
    \/ \E i \in {_get_client_identifier(client), <<"ip">> \o _get_client_ip(Guest)} :
          ResetRateLimits(i)

SpecReset == InitReset /\ [][NextReset]_vars

-----------------------------------------------------------------------------
(* Identity resolution over request contexts *)

\* request contexts: token state, X-Forwarded-For, X-Real-IP, peer address
Contexts ==
    {Ctx(j, f, r, a) :
        j \in {NoJwt, Jwt("", NoClaims), Jwt("5", [type |-> "user", role |-> "user"]),
               Jwt("7", [role |-> "admin"]),
               Jwt("4", [type |-> "hospital", role |-> "hospital_admin"])},
        f \in {<< >>, << <<"9.9.9.9">> >>, << <<"9.9.9.9">>, <<"10.0.0.1">> >>},
        r \in {<< >>, <<"2.2.2.2">>},
        a \in {<< >>, <<"1.1.1.1">>}}

\* rate_limiter._get_client_identifier() called for the request
Identify ==
    /\ resp' = [op         |-> "identify",
                identifier |-> _get_client_identifier(client),
                ip         |-> _get_client_ip(client),
                pre        |-> store]
    /\ UNCHANGED <<now, avail, store, endpoint, client, calls, workers, ticks, failed, resets>>

InitIdentity == InitWith({<<Route("api", None), c>> : c \in Contexts}, {TRUE})

NextIdentity ==
    \/ Identify
    \/ Request("none", "none")

SpecIdentity == InitIdentity /\ [][NextIdentity]_vars

-----------------------------------------------------------------------------
(* Concurrent request handlers: check_rate_limit step by step.  Each worker
   handles one request of the client on the route. *)

\* lines 76-96: the call resolves identity, policy and limit and builds the key
WBegin(w) ==
    LET lt    == endpoint.limit_type
        ident == _get_client_identifier(client)
    IN  /\ workers[w].pc = "idle"
        /\ avail
        /\ lt \in DOMAIN default_limits
        /\ workers' = [workers EXCEPT ![w] =
              [pc |-> "exists", key |-> _get_rate_limit_key(ident, lt, now)]]
        /\ UNCHANGED <<now, avail, store, endpoint, client, resp, calls, ticks, failed, resets>>

\* cache_service.py line 167: self.redis_client.exists(cache_key), sent at once
WExists(w) ==
    /\ workers[w].pc = "exists"
    /\ workers' = [workers EXCEPT ![w] =
          [pc |-> "execute", key |-> workers[w].key,
           existed |-> redis_exists(store, workers[w].key)]]
    /\ UNCHANGED <<now, avail, store, endpoint, client, resp, calls, ticks, failed, resets>>

\* cache_service.py line 170: pipe.execute(), then lines 101-117 of the check
WExecute(w) ==
    LET me    == workers[w]
        ident == _get_client_identifier(client)
        cfg   == limit_config(endpoint.limit_type, endpoint.custom_limit)
        limit == adjusted_limit(cfg.requests, _get_user_role_multiplier(client))
        st1   == pipe_execute(store, me.key, 1, cfg.window, me.existed, now)
        r     == check_finish(ident, cfg, limit,
                              [st |-> st1, ret |-> Some(st1[me.key].val)], now)
    IN  /\ me.pc = "execute"
        /\ store' = r.st
        /\ workers' = [workers EXCEPT ![w] =
              [pc          |-> "done",
               key         |-> me.key,
               existed     |-> me.existed,
               live_before |-> me.key \in DOMAIN store,
               exp_before  |-> IF me.key \in DOMAIN store THEN store[me.key].exp
                               ELSE NoTTL,
               exp_after   |-> r.st[me.key].exp,
               count       |-> r.count.v,
               limit       |-> limit,
               allowed     |-> r.allowed]]
        /\ UNCHANGED <<now, avail, endpoint, client, resp, calls, ticks, failed, resets>>

InitConc ==
    InitWith({<<e, c>> : e \in {Route("emergency", None), Route("emergency", Policy(4, 60))},
                         c \in {Guest, User}}, {TRUE})

NextConc ==
    \/ \E w \in DOMAIN workers : WBegin(w)
    \/ \E w \in DOMAIN workers : WExists(w)
    \/ \E w \in DOMAIN workers : WExecute(w)
    \/ \E d \in TimeSteps : Advance(d, MaxConcTicks)

SpecConc == InitConc /\ [][NextConc]_vars

-----------------------------------------------------------------------------
(* Concurrent handlers of a route wrapped by brute_force_protection():
   check_brute_force_protection step by step, with its defaults
   max_attempts = 5 and window = 900. *)

\* the block target: identifier.split(':')[-1] if ':' in identifier
block_target(identifier) ==
    IF HasColon(identifier) THEN LastSegment(identifier) ELSE identifier

\* lines 335-338, 162: the wrapper resolves the identity and builds the key
BBegin(w) ==
    /\ workers[w].pc = "idle"
    /\ avail
    /\ workers' = [workers EXCEPT ![w] =
          [pc  |-> "bf_exists",
           key |-> <<"brute_force">> \o _get_client_identifier(client)]]
    /\ UNCHANGED <<now, avail, store, endpoint, client, resp, calls, ticks, failed, resets>>

\* cache_service.py line 167: self.redis_client.exists(cache_key), sent at once
BExists(w) ==
    /\ workers[w].pc = "bf_exists"
    /\ workers' = [workers EXCEPT ![w] =
          [pc |-> "bf_execute", key |-> workers[w].key,
           existed |-> redis_exists(store, workers[w].key)]]
    /\ UNCHANGED <<now, avail, store, endpoint, client, resp, calls, ticks, failed, resets>>

\* cache_service.py line 170: pipe.execute(), then lines 165-171 of
\* check_brute_force_protection
BExecute(w) ==
    LET me       == workers[w]
        st1      == pipe_execute(store, me.key, 1, 900, me.existed, now)
        attempts == st1[me.key].val
        target   == block_target(_get_client_identifier(client))
    IN  /\ me.pc = "bf_execute"
        /\ store' = IF attempts > 5
                    THEN block_ip(st1, avail, target, 900, "Brute force protection",
                                  now, "none").st
                    ELSE st1
        /\ workers' = [workers EXCEPT ![w] =
              [pc       |-> "bf_done",
               key      |-> me.key,
               existed  |-> me.existed,
               attempts |-> attempts,
               blocked  |-> attempts > 5,
               t        |-> now]]
        /\ UNCHANGED <<now, avail, endpoint, client, resp, calls, ticks, failed, resets>>

InitConcBF ==
    InitWith({<<Route("auth", None), c>> : c \in {Guest, Proxied, User}}, {TRUE})

NextConcBF ==
    \/ \E w \in DOMAIN workers : BBegin(w)
    \/ \E w \in DOMAIN workers : BExists(w)
    \/ \E w \in DOMAIN workers : BExecute(w)
    \/ \E d \in LongSteps : Advance(d, MaxConcTicks)

SpecConcBF == InitConcBF /\ [][NextConcBF]_vars

-----------------------------------------------------------------------------
(* Properties of the quota check, under Spec *)

\* the last step was a request whose check_rate_limit call reached the counter
Checked == resp.op = "request" /\ resp.checked /\ resp.info # EmptyInfo

\* the route's policy counts in the window the counter key is built from
KeyedByPolicyWindow ==
    /\ endpoint.limit_type \in DOMAIN default_limits
    /\ resp.policy.window = default_limits[endpoint.limit_type].window

C2_WindowReset ==
    (Checked /\ resp.info.limit >= 1 /\ resp.prev_reset >= 0
        /\ resp.t > resp.prev_reset) =>
        resp.allowed /\ resp.count = Some(1)

\* the role table of the claim, doubled
C8_Table == [admin |-> 6, hospital_admin |-> 4, doctor |-> 4, user |-> 2, guest |-> 1]

\* C8 (role scaling): for a principal whose role is in the table the limit
\* check_rate_limit enforces is floor(N * multiplier(role)); a call is
\* allowed exactly when its count is within it; on the auth default (N = 5)
\* an admin's 15th request of a window is allowed and the 16th denied.
C8_RoleScaling ==
    (Checked /\ client.jwt.present /\ "role" \in DOMAIN client.jwt.claims
        /\ client.jwt.claims.role \in DOMAIN C8_Table) =>
        LET m2 == C8_Table[client.jwt.claims.role]
            n  == resp.policy.requests
        IN  /\ 2 * resp.info.limit <= n * m2
            /\ n * m2 < 2 * resp.info.limit + 2
            /\ resp.allowed <=> resp.count.v <= resp.info.limit
            /\ (client = Admin /\ endpoint = Route("auth", None)) =>
                  /\ resp.info.limit = 15
                  /\ resp.ordinal = 15 => resp.allowed
                  /\ resp.ordinal = 16 => ~resp.allowed

C8_Witness ==
    /\ Checked /\ client = Admin /\ endpoint = Route("auth", None)
    /\ resp.ordinal = 16 /\ ~resp.allowed /\ resp.outcome = "RateLimited"

\* the principal of the request carries no role, or one not in the table
UnknownRole ==
    /\ client.jwt.present
    /\ \/ "role" \notin DOMAIN client.jwt.claims
       \/ client.jwt.claims.role \notin DOMAIN user_role_multipliers

C10_MinimumBudget ==
    (Checked /\ resp.policy.requests >= 1) =>
        /\ resp.info.limit >= 1
        /\ resp.count = Some(1) => resp.allowed

-----------------------------------------------------------------------------
(* Properties of blocking, under SpecBlock and SpecBF *)

\* C3 (block precedence): a request whose resolved address has a block entry
\* is answered Blocked (429) by the wrapper without a check_rate_limit call:
\* the handler does not run and no key of the store changes.
C3_BlockPrecedence ==
    (resp.op = "request" /\ resp.pre_blocked) =>
        /\ resp.outcome = "Blocked"
        /\ resp.status = 429
        /\ ~resp.checked
        /\ ~resp.changed
        /\ ~resp.handler_ran

\* a blocked request of a client whose quota is not used up
C3_Witness ==
    /\ resp.op = "request" /\ resp.pre_blocked /\ resp.outcome = "Blocked"
    /\ CounterValue(store, _get_rate_limit_key(_get_client_identifier(client),
                                               endpoint.limit_type, now))
          < adjusted_limit(resp.policy.requests, _get_user_role_multiplier(client))

\* C4 (escalation blocks the address), as claimed: when track_failed_login
\* returns true a block entry keyed by the caller's address exists.
C4_BlocksAddress ==
    (resp.op = "track_failed_login" /\ resp.ret) =>
        blocked_key(resp.ip) \in DOMAIN store

-----------------------------------------------------------------------------
(* Properties under store failures, SpecFault *)

\* every increment of the failed-login call failed
AllIncrementsFailed ==
    resp.f.ip # "none" /\ resp.f.user # "none" /\ resp.f.combo # "none"

\* C5 (fail-open): with the store unconfigured, or when a store call of the
\* check fails, check_rate_limit answers allowed with empty metadata and no
\* exception leaves it; is_ip_blocked answers false, so the request is not
\* Blocked; track_failed_login answers false when the store is unconfigured
\* or its increments fail.
C5_FailOpen ==
    /\ (resp.op = "request" /\ resp.checked /\ (~avail \/ resp.f_inc # "none")) =>
          /\ resp.allowed
          /\ resp.info = EmptyInfo
          /\ resp.outcome = "Allowed"
          /\ resp.handler_ran
    /\ resp.op = "request" => resp.outcome # "Error"
    /\ (resp.op = "request" /\ (~avail \/ resp.f_block # "none")) =>
          resp.outcome # "Blocked"
    /\ (resp.op = "track_failed_login" /\ (~avail \/ AllIncrementsFailed)) =>
          ~resp.ret

\* a request of a blocked address is admitted because both store calls failed
C5_Witness ==
    /\ resp.op = "request" /\ avail /\ resp.pre_blocked
    /\ resp.f_block = "exists" /\ resp.f_inc = "reply"
    /\ resp.outcome = "Allowed" /\ resp.info = EmptyInfo /\ resp.changed

-----------------------------------------------------------------------------
(* Properties of concurrent checks, under SpecConc *)

\* the workers that finished a call on counter key k
DoneOn(k) == {w \in DOMAIN workers : workers[w].pc = "done" /\ workers[w].key = k}

WorkerKeys == {workers[w].key : w \in {v \in DOMAIN workers : workers[v].pc # "idle"}}

\* the window the key was built for is still the current one
InWindow(k) ==
    k = _get_rate_limit_key(_get_client_identifier(client), endpoint.limit_type, now)

\* C6 (no lost updates): the k calls that have incremented one counter key
\* inside its window obtained the counts 1..k, exactly min(k, effective
\* limit) of them were allowed, and the stored counter is k, whatever the
\* interleaving of their store calls.
C6_NoLostUpdates ==
    \A k \in WorkerKeys :
        InWindow(k) =>
            LET D == DoneOn(k)
                n == Cardinality(D)
            IN  /\ {workers[w].count : w \in D} = 1..n
                /\ CounterValue(store, k) = n
                /\ \A w \in D :
                      Cardinality({v \in D : workers[v].allowed})
                          = IF n <= workers[w].limit THEN n ELSE workers[w].limit

\* two calls overlapped (the second sent EXISTS before the first executed)
\* and one of them was denied
C6_Witness ==
    \E k \in WorkerKeys :
        /\ InWindow(k)
        /\ Cardinality(DoneOn(k)) = 2
        /\ \E w \in DoneOn(k) :
              ~workers[w].existed /\ workers[w].count = 2 /\ ~workers[w].allowed

\* C7 (TTL only on creation), as claimed: an increment that lands on a
\* counter that already exists leaves its expiry as it was.
C7_TtlOnlyOnCreation ==
    \A w \in DOMAIN workers :
        (workers[w].pc = "done" /\ workers[w].live_before) =>
            workers[w].exp_after = workers[w].exp_before

-----------------------------------------------------------------------------
(* Properties of brute-force detection, under SpecBF *)

\* keys of the three brute-force counters of a failed login
bf_ip_key(ip) == <<"brute_force">> \o ip
bf_user_key(username) == <<"brute_force", "user">> \o username
bf_combo_key(ip, username) == <<"brute_force", "combo">> \o ip \o username

\* the last step was a failed login tracked with a working store
Tracked == resp.op = "track_failed_login" /\ avail /\ resp.f = NoFaults

\* the block entries of a keyspace
BlockEntries(st) == {k \in DOMAIN st : k[1] = "blocked_ip"}

\* the three axes are counted separately: a failed login for u from A adds
\* one to the counter of A, of u and of (A, u), and leaves the counters of
\* every other username and of its combo with A as they were
C11_CountersIsolated ==
    Tracked =>
        LET A == resp.ip
            u == resp.username
        IN  /\ CounterValue(store, bf_ip_key(A)) = CounterValue(resp.pre, bf_ip_key(A)) + 1
            /\ CounterValue(store, bf_user_key(u)) = CounterValue(resp.pre, bf_user_key(u)) + 1
            /\ CounterValue(store, bf_combo_key(A, u))
                  = CounterValue(resp.pre, bf_combo_key(A, u)) + 1
            /\ \A v \in Usernames \ {u} :
                  /\ CounterValue(store, bf_user_key(v)) = CounterValue(resp.pre, bf_user_key(v))
                  /\ CounterValue(store, bf_combo_key(A, v))
                        = CounterValue(resp.pre, bf_combo_key(A, v))
            /\ resp.by_combo <=> CounterValue(store, bf_combo_key(A, u)) > 3
            /\ resp.by_ip <=> CounterValue(store, bf_ip_key(A)) > 10

\* C11 (brute-force isolation), as claimed: the axes are counted separately,
\* the combo axis of (A, u) trips on u's own attempts from A beyond 3, the
\* address axis on the attempts from A beyond 10 whatever the username, and
\* whichever of the two trips, address A is blocked.
C11_AxisIsolation ==
    /\ C11_CountersIsolated
    /\ (Tracked /\ (resp.by_combo \/ resp.by_ip)) =>
          blocked_key(resp.ip) \in DOMAIN store

\* C12 (axis thresholds): track_failed_login returns true exactly when,
\* after its three increments, the address count exceeds 10, the username
\* count exceeds 5 or the combo count exceeds 3; otherwise it returns false
\* and the block entries are those that existed before the call.
C12_AxisThresholds ==
    Tracked =>
        LET over == \/ CounterValue(store, bf_ip_key(resp.ip)) > 10
                    \/ CounterValue(store, bf_user_key(resp.username)) > 5
                    \/ CounterValue(store, bf_combo_key(resp.ip, resp.username)) > 3
        IN  /\ resp.ret <=> over
            /\ ~over =>
                  /\ BlockEntries(store) = BlockEntries(resp.pre)
                  /\ \A k \in BlockEntries(store) : store[k] = resp.pre[k]

\* the username axis alone trips: the sixth failure of a username inside
\* 1800 s, after its combo counter has expired
C12_Witness ==
    /\ Tracked /\ resp.ret
    /\ resp.by_user /\ ~resp.by_combo /\ ~resp.by_ip
    /\ CounterValue(store, bf_user_key(resp.username)) = 6

-----------------------------------------------------------------------------
(* Properties of the decision metadata, under Spec *)

-----------------------------------------------------------------------------
(* Properties of block entries, under SpecBlock *)

\* C14 (idempotent re-block): block_ip for an address that is already
\* blocked returns true, adds no key to the store, and leaves the one entry
\* of the address with the TTL, duration and reason of this second call;
\* the address is blocked before and after.
C14_IdempotentReblock ==
    (resp.op = "block_ip" /\ resp.pre_blocked) =>
        LET k == blocked_key(resp.ip)
        IN  /\ resp.ret
            /\ DOMAIN store = DOMAIN resp.pre
            /\ \A j \in DOMAIN store \ {k} : store[j] = resp.pre[j]
            /\ Cardinality({j \in BlockEntries(store) : SubSeq(j, 2, Len(j)) = resp.ip}) = 1
            /\ store[k].exp = resp.t + resp.duration
            /\ store[k].val.duration = resp.duration
            /\ store[k].val.reason = resp.reason
            /\ is_ip_blocked(store, avail, resp.ip, "none")

\* a second block with another duration and another reason
C14_Witness ==
    /\ resp.op = "block_ip" /\ resp.pre_blocked /\ resp.ret
    /\ resp.pre[blocked_key(resp.ip)].val.duration # resp.duration
    /\ resp.pre[blocked_key(resp.ip)].val.reason # resp.reason
    /\ resp.pre[blocked_key(resp.ip)].val.blocked_at < resp.t

\* every block entry is that of the last block_ip call for its address and
\* lives strictly before that call's t + ttl
C18_Entries ==
    /\ \A k \in BlockEntries(store) :
          /\ now < store[k].exp
          /\ store[k].exp = store[k].val.blocked_at + store[k].val.duration
    /\ resp.op = "block_ip" =>
          /\ is_ip_blocked(store, avail, resp.ip, "none")
          /\ store[blocked_key(resp.ip)].exp = resp.t + resp.duration
          /\ store[blocked_key(resp.ip)].val.blocked_at = resp.t

\* a step that is not an administrative reset keeps every block entry whose
\* expiry is still ahead, with its expiry unless the step is a block call
C18_Kept ==
    \A k \in BlockEntries(store) :
        (now' < store[k].exp /\ resp'.op # "reset") =>
            /\ k \in DOMAIN store'
            /\ resp'.op # "block_ip" => store'[k] = store[k]

\* C18 (block lifetime), amended: after block_ip(address, ttl) at t the
\* address is blocked at every instant before t + ttl unless an
\* administrative reset deletes the entry or a later block_ip call for the
\* address replaces it (the entry then lives until that call's t' + ttl');
\* it is not blocked from the last call's t + ttl on; requests and the
\* passage of time remove no block.
C18_BlockLifetime == []C18_Entries /\ [][C18_Kept]_vars

\* a step that is not an administrative reset keeps every block entry at
\* least until the expiry it had
C18_KeptUntilFirstExpiry ==
    \A k \in BlockEntries(store) :
        (now' < store[k].exp /\ resp'.op # "reset") =>
            /\ k \in DOMAIN store'
            /\ store'[k].exp >= store[k].exp

\* C18 (block lifetime), as claimed: after block_ip(address, ttl) at t the
\* address is blocked at every instant before t + ttl unless an
\* administrative reset deletes the entry, whatever else is called.
C18_BlockLifetimeAsClaimed == []C18_Entries /\ [][C18_KeptUntilFirstExpiry]_vars

\* a request is refused as Blocked after the clock has advanced, ten seconds
\* before the block runs out
C18_Witness ==
    /\ resp.op = "request" /\ resp.outcome = "Blocked"
    /\ store[blocked_key(_get_client_ip(client))].val.blocked_at < now
    /\ store[blocked_key(_get_client_ip(client))].exp = now + 10

-----------------------------------------------------------------------------
(* Properties of stored overrides, under SpecOverride *)

\* C15 (override precedence), as claimed: while an override stored by
\* set_custom_limit for the category is unexpired, check_rate_limit enforces
\* the override's budget and window; once it has expired the built-in
\* default applies.
C15_OverridePrecedence ==
    Checked =>
        LET m2 == _get_user_role_multiplier(client)
            d  == default_limits[endpoint.limit_type]
        IN  /\ resp.override # None =>
                  /\ resp.info.limit = adjusted_limit(resp.override.v.requests, m2)
                  /\ resp.info.window = resp.override.v.window
            /\ resp.override = None =>
                  /\ resp.info.limit = adjusted_limit(d.requests, m2)
                  /\ resp.info.window = d.window

\* what the code does: the built-in default is enforced whether or not an
\* override is stored
C15_OverrideIgnored ==
    Checked =>
        /\ resp.info.limit = adjusted_limit(default_limits[endpoint.limit_type].requests,
                                            _get_user_role_multiplier(client))
        /\ resp.info.window = default_limits[endpoint.limit_type].window

-----------------------------------------------------------------------------
(* Properties of the wrapper's responses *)

\* C16 (per-request outcome), under SpecBlock: every request through the
\* wrapper ends as Allowed, RateLimited or Blocked; the handler runs exactly
\* when the outcome is Allowed; RateLimited and Blocked answer 429.
C16_Outcome ==
    resp.op = "request" =>
        /\ resp.outcome \in {"Allowed", "RateLimited", "Blocked"}
        /\ resp.handler_ran <=> resp.outcome = "Allowed"
        /\ resp.outcome \in {"RateLimited", "Blocked"} => resp.status = 429
        /\ resp.outcome = "Blocked" <=> resp.pre_blocked
        /\ resp.outcome = "RateLimited" <=> (resp.checked /\ ~resp.allowed)

\* a request over its quota from an address that is not blocked
C16_Witness ==
    /\ resp.op = "request" /\ ~resp.pre_blocked
    /\ resp.outcome = "RateLimited" /\ resp.status = 429 /\ ~resp.handler_ran
    /\ resp.count.v > resp.info.limit

ThreeHeaders == {"X-RateLimit-Limit", "X-RateLimit-Remaining", "X-RateLimit-Reset"}

\* the three headers carry the metadata of the check
HeadersMatch(h, i, c) ==
    /\ h["X-RateLimit-Limit"] = i.limit
    /\ h["X-RateLimit-Remaining"] = Max(0, i.limit - c)
    /\ h["X-RateLimit-Reset"] = i.reset_time

\* C17 (success headers), as claimed, under SpecFault: every admitted
\* response carries the three X-RateLimit headers, every RateLimited
\* response those three and Retry-After.
C17_SuccessHeaders ==
    resp.op = "request" =>
        /\ resp.outcome = "Allowed" => DOMAIN resp.headers = ThreeHeaders
        /\ resp.outcome = "RateLimited" =>
              DOMAIN resp.headers = ThreeHeaders \cup {"Retry-After"}

\* C17, amended: an admitted response whose check produced metadata carries
\* the three X-RateLimit headers with the post-request remaining count; an
\* admitted response whose check failed open (empty metadata) carries none
\* of them; every RateLimited response carries the three and Retry-After.
C17_HeadersWithMetadata ==
    resp.op = "request" =>
        /\ (resp.outcome = "Allowed" /\ resp.info # EmptyInfo) =>
              /\ DOMAIN resp.headers = ThreeHeaders
              /\ HeadersMatch(resp.headers, resp.info, resp.count.v)
        /\ (resp.outcome = "Allowed" /\ resp.info = EmptyInfo) =>
              resp.headers = NoHeaders
        /\ resp.outcome = "RateLimited" =>
              /\ DOMAIN resp.headers = ThreeHeaders \cup {"Retry-After"}
              /\ HeadersMatch(resp.headers, resp.info, resp.count.v)
              /\ resp.headers["X-RateLimit-Remaining"] = 0
              /\ resp.headers["Retry-After"] = resp.info.reset_time - resp.t

\* the second admitted request of a window reports one request left
C17_Witness ==
    /\ resp.op = "request" /\ resp.outcome = "Allowed"
    /\ resp.count = Some(2) /\ resp.info.limit = 3
    /\ resp.headers["X-RateLimit-Remaining"] = 1

-----------------------------------------------------------------------------
(* Properties of identity resolution, under SpecIdentity *)

\* an authenticated principal is available to the request
HasPrincipal(req) == req.jwt.present /\ req.jwt.identity # ""

\* C19 (identity resolution): the identity is user:<type>:<id> when an
\* authenticated principal is available, otherwise ip:<address> with the
\* address taken from the first X-Forwarded-For entry, else X-Real-IP, else
\* the peer address, else "unknown"; resolving changes no state.
C19_IdentityResolution ==
    resp.op = "identify" =>
        LET kind == resp.identifier[1]
            addr == IF client.xff # << >> THEN client.xff[1]
                    ELSE IF client.xri # << >> THEN client.xri
                    ELSE IF client.remote # << >> THEN client.remote
                    ELSE <<"unknown">>
        IN  /\ kind \in {"user", "ip"}
            /\ kind = "user" <=> HasPrincipal(client)
            /\ HasPrincipal(client) =>
                  resp.identifier =
                      <<"user",
                        IF "type" \in DOMAIN client.jwt.claims
                        THEN client.jwt.claims.type ELSE "user",
                        client.jwt.identity>>
            /\ ~HasPrincipal(client) => resp.identifier = <<"ip">> \o addr
            /\ store = resp.pre

\* a request without token whose X-Real-IP is used because it carries no
\* X-Forwarded-For
C19_Witness ==
    /\ resp.op = "identify" /\ ~HasPrincipal(client)
    /\ client.xff = << >> /\ client.remote # << >>
    /\ resp.identifier = <<"ip", "2.2.2.2">>
    /\ store # EmptyStore

-----------------------------------------------------------------------------
(* Properties of call-site policies, under Spec *)

\* C20 (call-site custom policy), as claimed: with a call-site policy
\* {N, W} the counter key carries floor(now / W), so the k-th request of an
\* aligned W-second window is denied once k exceeds floor(N * multiplier).
C20_CustomPolicyBucket ==
    (Checked /\ endpoint.custom_limit # None) =>
        LET ident == _get_client_identifier(client)
            key   == _get_rate_limit_key(ident, endpoint.limit_type, resp.t)
        IN  /\ key[Len(key)] = ToString(Bucket(resp.t, endpoint.custom_limit.window))
            /\ resp.ordinal > resp.info.limit => ~resp.allowed

\* C21 (unconditional counting): every track_failed_login call with the
\* store available adds exactly one to the address, the username and the
\* combo counter, also when an earlier axis of the call has tripped and when
\* the address is already blocked.
C21_UnconditionalCounting ==
    Tracked =>
        \A k \in {bf_ip_key(resp.ip), bf_user_key(resp.username),
                   bf_combo_key(resp.ip, resp.username)} :
            /\ k \in DOMAIN store
            /\ store[k].val = CounterValue(resp.pre, k) + 1

\* a failed login from an address that is already blocked, whose username
\* axis trips before the combo axis is counted
C21_Witness ==
    /\ Tracked
    /\ blocked_key(resp.ip) \in DOMAIN resp.pre
    /\ resp.by_user
    /\ store[bf_combo_key(resp.ip, resp.username)].val
          = CounterValue(resp.pre, bf_combo_key(resp.ip, resp.username)) + 1

-----------------------------------------------------------------------------
(* Frame of a quota check, under SpecShared *)

\* the counter key the check of the last request was made on
CheckedKey ==
    _get_rate_limit_key(_get_client_identifier(client), endpoint.limit_type, resp.t)

\* the counters of a category and identity, whatever the bucket
CountersOf(st, limit_type, identifier) ==
    {k \in DOMAIN st : HasPrefix(k, <<"rate_limit", limit_type>> \o identifier)}

\* C22 (frame of a quota check): a check_rate_limit call for identity i and
\* category c changes the one counter key of (c, i) it is made on and leaves
\* every other key of the store as it was: the counters of other
\* identities, categories and buckets, the brute-force counters and the
\* block entries.
C22_QuotaCheckFrame ==
    (resp.op = "request" /\ resp.checked /\ resp.info # EmptyInfo) =>
        /\ CheckedKey \in CountersOf(store, endpoint.limit_type,
                                      _get_client_identifier(client))
        /\ store[CheckedKey].val = CounterValue(resp.pre, CheckedKey) + 1
        /\ DOMAIN store \ {CheckedKey} = DOMAIN resp.pre \ {CheckedKey}
        /\ \A k \in DOMAIN store \ {CheckedKey} : store[k] = resp.pre[k]

\* a check made while the store holds a counter of another bucket of the
\* same identity and category, a counter of another identity, a counter of
\* another category, a brute-force counter and a block entry
C22_Witness ==
    /\ resp.op = "request" /\ resp.checked /\ resp.info # EmptyInfo
    /\ CountersOf(resp.pre, endpoint.limit_type, _get_client_identifier(client))
          \ {CheckedKey} # {}
    /\ \E k \in DOMAIN resp.pre :
          k[1] = "rate_limit" /\ k[2] = endpoint.limit_type
            /\ ~HasPrefix(k, <<"rate_limit", endpoint.limit_type>>
                               \o _get_client_identifier(client))
    /\ \E k \in DOMAIN resp.pre : k[1] = "rate_limit" /\ k[2] # endpoint.limit_type
    /\ \E k \in DOMAIN resp.pre : k[1] = "brute_force"
    /\ BlockEntries(resp.pre) # {}

-----------------------------------------------------------------------------
(* Properties of the administrative reset, under SpecReset *)

\* the quota counters of an identity, in every category
QuotaCountersOf(st, identifier) ==
    {k \in DOMAIN st :
        k[1] = "rate_limit" /\ HasPrefix(k, <<"rate_limit", k[2]>> \o identifier)}

\* the block entries of the address an identity names: that of the address
\* of an ip identity, none for a user identity
BlockOfIdentity(identifier) ==
    IF identifier[1] = "ip" THEN {blocked_key(Tail(identifier))} ELSE {}

\* the effect the claim gives a successful reset of identifier
ResetEffect(identifier) ==
    /\ QuotaCountersOf(store, identifier) = {}
    /\ BlockOfIdentity(identifier) \cap DOMAIN store = {}
    /\ \A k \in DOMAIN resp.pre :
          (k \notin QuotaCountersOf(resp.pre, identifier)
              /\ k \notin BlockOfIdentity(identifier)) =>
              k \in DOMAIN store /\ store[k] = resp.pre[k]

\* C23 (administrative reset), as claimed: after reset_rate_limits(identity)
\* returned true no quota counter of the identity is left, the block entry
\* of the address the identity names is gone, and every other counter and
\* block is as before.
C23_AdministrativeReset ==
    (resp.op = "reset" /\ resp.ret) => ResetEffect(resp.identifier)

\* the claimed effect holds for user identities and for ip identities whose
\* address contains no ':'
C23_ResetOfPlainIdentity ==
    (resp.op = "reset" /\ resp.ret
        /\ (resp.identifier[1] = "user" \/ Len(resp.identifier) = 2)) =>
        ResetEffect(resp.identifier)

\* a policy with a non-positive window or a negative budget
Malformed(policy) == policy.window <= 0 \/ policy.requests < 0

\* C24 (malformed policies are rejected at registration), as claimed:
\* set_custom_limit with a non-positive window or a negative budget returns
\* failure and stores nothing, so the store never holds such an override.
C24_MalformedRejected ==
    /\ (resp.op = "set_custom_limit" /\ Malformed(resp.override)) => ~resp.ret
    /\ \A k \in DOMAIN store : k[1] = "custom_limit" => ~Malformed(store[k].val)

-----------------------------------------------------------------------------
(* Denials inside a window, under Spec *)

-----------------------------------------------------------------------------
(* Brute-force counters under concurrency, SpecConcBF *)

\* C26 (brute-force counters always expire), as claimed: in every
\* interleaving of increments with key expiry each brute_force counter key
\* in the store carries a TTL.
C26_CountersExpire ==
    \A k \in DOMAIN store : k[1] = "brute_force" => store[k].exp # NoTTL

-----------------------------------------------------------------------------
(* Reset and brute-force detection, SpecBFReset *)

\* the reset that has just returned lifted a brute-force block of the
\* client's address
LiftedBruteForceBlock ==
    LET A == _get_client_ip(client)
    IN  /\ resp.op = "reset"
        /\ resp.ret
        /\ resp.identifier = <<"ip">> \o A
        /\ blocked_key(A) \in DOMAIN resp.pre
        /\ resp.pre[blocked_key(A)].val.reason = "Brute force protection"
        /\ blocked_key(A) \notin DOMAIN store

\* C27 (reset gives a clean slate for brute-force detection), as claimed:
\* when reset_rate_limits for A's identity has lifted a brute-force block of
\* A, the next failed login from A does not block A again.
C27_CleanSlate ==
    [][(LiftedBruteForceBlock /\ resp'.op = "track_failed_login")
          => blocked_key(_get_client_ip(client)) \notin DOMAIN store']_vars

-----------------------------------------------------------------------------
(* Categories outside the built-in table, under Spec *)

\* C28 (unregistered category is still limited), as claimed: a
\* check_rate_limit call with a category that is not in the built-in table
\* is checked under the fallback policy (the api default when the route has
\* no policy of its own) and is counted: the decision carries that policy's
\* metadata and a counter of the store has moved.
C28_UnregisteredLimited ==
    (/\ resp.op = "request"
     /\ resp.checked
     /\ avail
     /\ endpoint.limit_type \notin DOMAIN default_limits) =>
        /\ resp.info # EmptyInfo
        /\ resp.policy = limit_config(endpoint.limit_type, endpoint.custom_limit)
        /\ resp.info.window = resp.policy.window
        /\ resp.info.limit = adjusted_limit(resp.policy.requests,
                                            _get_user_role_multiplier(client))
        /\ resp.changed

-----------------------------------------------------------------------------
(* What gets blocked, under SpecProtected *)

\* C29 (only addresses are blocked), as claimed: after any sequence of
\* track_failed_login calls and requests through brute_force_protection,
\* every block entry of the store is keyed by the network address the calls
\* came from.
C29_OnlyAddressesBlocked ==
    \A k \in BlockEntries(store) : k = blocked_key(_get_client_ip(client))

====
